---- MODULE Spec2Model ----
(***************************************************************************)
(* Model of shard's `create-tx` source transformation                      *)
(* (src/src/commands/create_tx.rs, src/src/types.rs).                      *)
(*                                                                         *)
(* A source file is modelled by the tree syn parses it into: a sequence of *)
(* items (enum / impl / other), impl items holding methods, methods        *)
(* holding statements, match statements holding arms.  A file on disk also *)
(* records whether its text is hand-written ("raw": own layout, plain      *)
(* comments) or the canonical text prettyplease prints.                    *)
(***************************************************************************)
EXTENDS Integers, Sequences, FiniteSets, TLC

(***************************************************************************)
(* Bounds                                                                  *)
(***************************************************************************)
\* number of create_transaction invocations explored
MaxCalls == 3

(***************************************************************************)
(* Names                                                                   *)
(***************************************************************************)
UNION_NAME == "TransactionType"
PLACEHOLDER == "Noop"
DEFAULT_TYPE == <<"String">>
ACCEPT == "Ok(())"

\* Transaction names a caller passes.  The placeholder name is reserved for
\* the initializer, callers name real transaction types.
TxNames == {"CreateGame", "JoinGame"}

\* Type texts, as the token sequence proc_macro2 lexes them into.
T_u64 == <<"u64">>
T_vec == <<"Vec", "<", "u8", ">">>
T_addr == <<"Address">>
T_bad == <<"not", "a", "real", "type", "@", "@">>
T_open == <<"Vec", "<">>
T_empty == <<>>

TransactionField(name, field_type) == [name |-> name, field_type |-> field_type]

\* Field lists a caller passes (ordered, names may repeat types).
FieldLists ==
    { <<>>,
      <<TransactionField("game_id", T_u64)>>,
      <<TransactionField("recipient", T_addr), TransactionField("amount", T_vec)>>,
      <<TransactionField("amount", T_bad), TransactionField("memo", T_open),
        TransactionField("note", T_empty)>> }

(***************************************************************************)
(* Sequence helpers                                                        *)
(***************************************************************************)
RECURSIVE SelectSeqBy(_, _)
SelectSeqBy(s, keep) ==
    IF s = <<>> THEN <<>>
    ELSE IF keep[1] THEN <<Head(s)>> \o SelectSeqBy(Tail(s), Tail(keep))
         ELSE SelectSeqBy(Tail(s), Tail(keep))

Range(s) == { s[i] : i \in DOMAIN s }

\* index of the first TRUE of a sequence of flags, 0 when there is none
\* (find_map over the elements the flags were computed from)
FirstIdx(flags) ==
    IF \E i \in DOMAIN flags : flags[i]
    THEN CHOOSE i \in DOMAIN flags : flags[i] /\ \A j \in 1..(i-1) : ~flags[j]
    ELSE 0

(***************************************************************************)
(* Trees                                                                   *)
(***************************************************************************)
NoExpr == [base |-> "", member |-> ""]
FieldExpr(base, member) == [base |-> base, member |-> member]
PathExpr(name) == [base |-> name, member |-> ""]
IsFieldExpr(e) == e.member # ""

\* pattern kinds: "Path" (TransactionType::X), "Struct" (TransactionType::X { a, b })
Arm(kind, variant, binds, body) ==
    [kind |-> kind, variant |-> variant, binds |-> binds, body |-> body]

MatchStmt(scrut, arms) == [t |-> "match", scrut |-> scrut, arms |-> arms]
OtherStmt == [t |-> "other", scrut |-> NoExpr, arms |-> <<>>]

Method(name, stmts) == [name |-> name, stmts |-> stmts]

SynField(name, ty) == [name |-> name, ty |-> ty]
Variant(name, fields) == [name |-> name, fields |-> fields]

EnumItem(name, variants) ==
    [t |-> "enum", name |-> name, variants |-> variants, methods |-> <<>>]
ImplItem(name, methods) ==
    [t |-> "impl", name |-> name, variants |-> <<>>, methods |-> methods]
OtherItem(name) ==
    [t |-> "other", name |-> name, variants |-> <<>>, methods |-> <<>>]

\* a file on disk
RustFile(fmt, items) == [kind |-> "rust", fmt |-> fmt, items |-> items]
MissingFile == [kind |-> "missing", fmt |-> "", items |-> <<>>]
GarbageFile == [kind |-> "garbage", fmt |-> "raw", items |-> <<>>]

\* Result<T>, or the panic that unwinds out of the call
Ok(v) == [tag |-> "Ok", val |-> v, msg |-> ""]
Err(m) == [tag |-> "Err", val |-> <<>>, msg |-> m]
Panic(m) == [tag |-> "Panic", val |-> <<>>, msg |-> m]

\* syn::parse_file(&fs::read_to_string(..)?)?
parse_file(f) ==
    IF f.kind = "rust" THEN Ok(f.items)
    ELSE IF f.kind = "garbage" THEN Err("parse error")
    ELSE Err("No such file or directory")

\* prettyplease::unparse: canonical text of a tree
unparse(items) == RustFile("canonical", items)

(***************************************************************************)
(* types.rs: TransactionField::to_syn_field                                *)
(***************************************************************************)
IsIdentTok(t) == t \notin {"<", ">", "@", ",", "(", ")"}

\* syn's Type parser on a token sequence, restricted to path types with one
\* generic argument: the position after the type starting at i, 0 on error.
RECURSIVE TypeEnd(_, _)
TypeEnd(toks, i) ==
    IF i > Len(toks) \/ ~IsIdentTok(toks[i]) THEN 0
    ELSE IF i + 1 <= Len(toks) /\ toks[i + 1] = "<"
         THEN LET j == TypeEnd(toks, i + 2)
              IN  IF j = 0 \/ j > Len(toks) \/ toks[j] # ">" THEN 0 ELSE j + 1
         ELSE i + 1

\* parse_str::<Type>(text): succeeds when one type spans the whole text
parse_str_type(toks) ==
    IF TypeEnd(toks, 1) = Len(toks) + 1 THEN Ok(toks) ELSE Err("type parse error")

to_syn_field_verbatim(f) == SynField(f.name, f.field_type)

\* parse_str(&self.field_type).unwrap_or_else(|_| parse_str("String").unwrap())
to_syn_field(f) ==
    LET r == parse_str_type(f.field_type)
    IN  SynField(f.name, IF r.tag = "Ok" THEN r.val ELSE parse_str_type(DEFAULT_TYPE).val)

(***************************************************************************)
(* create_tx.rs: node synthesis                                            *)
(***************************************************************************)
\* quote!'s rendering of an interpolated value: a &str becomes a string
\* literal token, an Ident an identifier token
QuoteStr(s) == [tok |-> "literal", text |-> s]
QuoteIdent(s) == [tok |-> "ident", text |-> s]

\* syn's Variant parser on one interpolated token (parse_quote! panics on error)
parse_quote_variant(t) ==
    IF t.tok = "ident" THEN Ok(Variant(t.text, <<>>))
    ELSE Panic("expected identifier")

new_variant_reversed(tx_name, fields) ==
    IF fields = <<>> THEN parse_quote_variant(QuoteStr(tx_name))
    ELSE Ok(Variant(tx_name,
                    [i \in 1..Len(fields) |-> to_syn_field(fields[Len(fields) + 1 - i])]))

\* create_tx.rs 63-83
new_variant(tx_name, fields) ==
    IF fields = <<>> THEN parse_quote_variant(QuoteStr(tx_name))
    ELSE Ok(Variant(tx_name, [i \in 1..Len(fields) |-> to_syn_field(fields[i])]))

\* create_tx.rs 120-132 and 192-205: TransactionType::Name [{ fields }] => Ok(())
new_arm(tx_name, fields) ==
    IF fields = <<>> THEN Arm("Path", tx_name, <<>>, ACCEPT)
    ELSE Arm("Struct", tx_name, [i \in 1..Len(fields) |-> fields[i].name], ACCEPT)

\* the retain closure: keep every arm but a path pattern ending in Noop
IsNoopArm(arm) == arm.kind = "Path" /\ arm.variant = PLACEHOLDER

retain_arms_keepall(arms) == arms

retain_arms(arms) ==
    SelectSeqBy(arms, [i \in 1..Len(arms) |-> ~IsNoopArm(arms[i])])

push_variant_front(variants, v) == <<v>> \o variants

\* transaction_enum.variants.push(new_variant)
push_variant(variants, v) == Append(variants, v)

filter_variants_keepall(variants) == variants

\* create_tx.rs 87-95: drop every variant named Noop
filter_variants(variants) ==
    SelectSeqBy(variants, [i \in 1..Len(variants) |-> variants[i].name # PLACEHOLDER])

(***************************************************************************)
(* create_tx.rs: modify_tx_file                                            *)
(***************************************************************************)
IsUnion(item) == item.t = "enum" /\ item.name = UNION_NAME
IsImpl(item) == item.t = "impl"
IsVerify(m) == m.name = "verify"

\* create_tx.rs 117-119: a match statement whose scrutinee is a field
\* expression with member tx_type
IsTxTypeMatch(stmt) ==
    stmt.t = "match" /\ IsFieldExpr(stmt.scrut) /\ stmt.scrut.member = "tx_type"

\* create_tx.rs 134-143: retain the non-Noop arms, then push the new arm
verify_arms(arms, arm) == Append(retain_arms(arms), arm)

\* create_tx.rs 116-148: the first statement of verify that matches on
\* <expr>.tx_type gets the arm; no such statement leaves the body as it is
modify_verify(method, tx_name, fields) ==
    LET k == FirstIdx([i \in DOMAIN method.stmts |-> IsTxTypeMatch(method.stmts[i])])
    IN  IF k = 0 THEN method
        ELSE [method EXCEPT !.stmts[k].arms = verify_arms(@, new_arm(tx_name, fields))]

\* create_tx.rs 50-151 on the content of src/tx.rs
modify_tx_file(txf, tx_name, fields) ==
    LET parsed == parse_file(txf)
        ast == parsed.val
        e == FirstIdx([i \in DOMAIN ast |-> IsUnion(ast[i])])
        nv == new_variant(tx_name, fields)
        ast1 == [ast EXCEPT ![e].variants = filter_variants(push_variant(@, nv.val))]
        b == FirstIdx([i \in DOMAIN ast1 |-> IsImpl(ast1[i])])
        v == FirstIdx([i \in DOMAIN ast1[b].methods |-> IsVerify(ast1[b].methods[i])])
    IN  IF parsed.tag # "Ok" THEN parsed
        ELSE IF e = 0 THEN Err("Couldn't find TransactionType enum")
        ELSE IF nv.tag # "Ok" THEN nv
        ELSE IF b = 0 THEN Err("Could not find impl block")
        ELSE IF v = 0 THEN Err("Could not find verify method")
        ELSE Ok(unparse([ast1 EXCEPT ![b].methods[v] = modify_verify(@, tx_name, fields)]))

(***************************************************************************)
(* create_tx.rs: modify_state_file                                         *)
(***************************************************************************)
IsStateDispatch(m) == m.name \in {"validate_tx", "process_tx"}

\* create_tx.rs 165-175: variants of TransactionType in src/tx.rs as it is
\* on disk, 0 when the enum is not there
transaction_type_count(ast) ==
    LET e == FirstIdx([i \in DOMAIN ast |-> IsUnion(ast[i])])
    IN  IF e = 0 THEN 0 ELSE Len(ast[e].variants)

\* create_tx.rs 182-208: retain when the union has a variant, insert at 0
state_arms(arms, arm, count) ==
    <<arm>> \o (IF count >= 1 THEN retain_arms(arms) ELSE arms)

\* create_tx.rs 178-210 for one method of the impl block
modify_dispatch(method, tx_name, fields, count) ==
    IF IsStateDispatch(method) /\ Len(method.stmts) >= 2 /\ method.stmts[2].t = "match"
    THEN [method EXCEPT !.stmts[2] =
              MatchStmt(FieldExpr("tx", "tx_type"),
                        state_arms(@.arms, new_arm(tx_name, fields), count))]
    ELSE method

\* create_tx.rs 153-215 on the contents of src/state.rs and src/tx.rs
modify_state_file(statef, txf, tx_name, fields) ==
    LET parsed == parse_file(statef)
        ast == parsed.val
        b == FirstIdx([i \in DOMAIN ast |-> IsImpl(ast[i])])
        tx_parsed == parse_file(txf)
        count == transaction_type_count(tx_parsed.val)
        \* block.stmts[1] indexes past the end of a shorter body
        oob == \E i \in DOMAIN ast[b].methods :
                  IsStateDispatch(ast[b].methods[i]) /\ Len(ast[b].methods[i].stmts) < 2
    IN  IF parsed.tag # "Ok" THEN parsed
        ELSE IF b = 0 THEN Err("Could not find impl block")
        ELSE IF tx_parsed.tag # "Ok" THEN tx_parsed
        ELSE IF oob THEN Panic("index out of bounds")
        ELSE Ok(unparse([ast EXCEPT ![b].methods =
                    [i \in DOMAIN @ |-> modify_dispatch(@[i], tx_name, fields, count)]]))

(***************************************************************************)
(* create_tx.rs: create_transaction                                        *)
(***************************************************************************)
Dirs == {"cwd", "other"}
\* project_path arguments: the working directory, another project, no directory
Paths == {".", "other", "missing"}
PathExists(path) == path \in {".", "other"}
DirOf(path) == IF path = "." THEN "cwd" ELSE path

\* a local that holds no text
NoContent == [kind |-> "none", fmt |-> "", items |-> <<>>]
Produced(content) == content.kind = "rust"

Contents(tx_content, state_content) ==
    [tx_content |-> tx_content, state_content |-> state_content]

prepare_tx_only(d, path, tx_name, fields) ==
    LET t == modify_tx_file(d["cwd"].tx, tx_name, fields)
        s == modify_state_file(d["cwd"].state, d["cwd"].tx, tx_name, fields)
    IN  IF ~PathExists(path) THEN Err("Project directory not found")
        ELSE IF t.tag # "Ok" THEN t
        ELSE Ok(Contents(t.val, IF s.tag = "Ok" THEN s.val ELSE NoContent))

\* create_tx.rs 32-41: both texts, or the first failure; the two files are
\* read relative to the working directory
prepare(d, path, tx_name, fields) ==
    LET t == modify_tx_file(d["cwd"].tx, tx_name, fields)
        s == modify_state_file(d["cwd"].state, d["cwd"].tx, tx_name, fields)
    IN  IF ~PathExists(path) THEN Err("Project directory not found")
        ELSE IF t.tag # "Ok" THEN t
        ELSE IF s.tag # "Ok" THEN s
        ELSE Ok(Contents(t.val, s.val))

(***************************************************************************)
(* create_tx.rs: parse_fields                                              *)
(***************************************************************************)
\* args.chunks_exact(2): the pairs, a shorter last chunk left out
RECURSIVE chunks_exact(_)
chunks_exact(args) ==
    IF Len(args) < 2 THEN <<>>
    ELSE <<SubSeq(args, 1, 2)>> \o chunks_exact(SubSeq(args, 3, Len(args)))

\* args.chunks(2): consecutive chunks of two, the last one shorter when the
\* length is odd
RECURSIVE chunks(_)
chunks(args) ==
    IF args = <<>> THEN <<>>
    ELSE IF Len(args) <= 2 THEN <<args>>
    ELSE <<SubSeq(args, 1, 2)>> \o chunks(SubSeq(args, 3, Len(args)))

\* the closure of create_tx.rs 16-23 on one chunk; argument words are kept
\* as the strings they are
field_of_chunk(chunk) ==
    IF Len(chunk) = 2 THEN TransactionField(chunk[1], chunk[2])
    ELSE TransactionField(chunk[1], "String")

\* create_tx.rs 13-25
parse_fields(args) ==
    LET cs == chunks(args) IN [i \in DOMAIN cs |-> field_of_chunk(cs[i])]

(***************************************************************************)
(* State                                                                   *)
(***************************************************************************)
VARIABLES
    disk,     \* disk[dir] = [tx |-> src/tx.rs, state |-> src/state.rs] of a project
    pc,       \* where create_transaction stands: "idle", "write_tx", "write_state"
    call,     \* arguments and locals of the current (or last) invocation
    result,   \* how the last finished invocation ended
    ncalls    \* invocations so far

vars == <<disk, pc, call, result, ncalls>>

\* one run of parse_fields on the command line's field arguments
VARIABLES
    args,     \* the argument words given, in order
    parsed    \* what parse_fields returned for them, once it has run

pvars == <<args, parsed>>

NotParsed == [done |-> FALSE, fields |-> <<>>]
Parsed(fields) == [done |-> TRUE, fields |-> fields]

\* no field arguments are being parsed
ParserIdle == args = <<>> /\ parsed = NotParsed

\* the tictactoe example's chain state (examples/tictactoe/src/state.rs)
VARIABLES
    games,    \* State.games: game id -> Board, for the games created
    last,     \* who signed the last transaction given to process_tx, its
              \* type and game, and how the call ended
    ntx       \* transactions given to process_tx so far

gvars == <<games, last, ntx>>

NoGames == [g \in {} |-> 0]
NoTx == [vk |-> "", kind |-> "", game_id |-> "", outcome |-> "none"]

\* no chain is running
ChainIdle == games = NoGames /\ last = NoTx /\ ntx = 0

allvars == <<vars, pvars, gvars>>

Project(tx, state) == [tx |-> tx, state |-> state]

NoCall ==
    [path |-> "", tx_name |-> "", fields |-> <<>>,
     tx_read |-> NoContent, state_read |-> NoContent,
     tx_content |-> NoContent, state_content |-> NoContent]

NoResult == [tag |-> "none", msg |-> ""]
Outcome(r) == [tag |-> r.tag, msg |-> r.msg]

(***************************************************************************)
(* Initial files                                                           *)
(***************************************************************************)
NoopArm == Arm("Path", PLACEHOLDER, <<>>, ACCEPT)

\* tx.rs of the initializer: the union with the placeholder, the Transaction
\* struct, impl Transaction { fn verify(&self) { match self.tx_type { Noop } } }
ContractTx ==
    RustFile("raw",
        << OtherItem("use"),
           EnumItem(UNION_NAME, <<Variant(PLACEHOLDER, <<>>)>>),
           OtherItem("Transaction"),
           ImplItem("Transaction",
               << Method("verify",
                      <<MatchStmt(FieldExpr("self", "tx_type"), <<NoopArm>>)>>) >>) >>)

\* state.rs of the initializer: validate_tx and process_tx each run a check
\* and then match tx.tx_type { Noop }
ContractState ==
    RustFile("raw",
        << OtherItem("use"),
           OtherItem("State"),
           ImplItem("State",
               << Method("new", <<OtherStmt>>),
                  Method("validate_tx",
                      <<OtherStmt, MatchStmt(FieldExpr("tx", "tx_type"), <<NoopArm>>)>>),
                  Method("process_tx",
                      <<OtherStmt, MatchStmt(FieldExpr("tx", "tx_type"), <<NoopArm>>)>>) >>) >>)

ContractProject == Project(ContractTx, ContractState)

Init ==
    /\ disk = [d \in Dirs |-> ContractProject]
    /\ pc = "idle"
    /\ call = NoCall
    /\ result = NoResult
    /\ ncalls = 0

(***************************************************************************)
(* Actions                                                                 *)
(***************************************************************************)
\* create_tx.rs 27-41: the call up to the first write
Invoke(path, tx_name, fields) ==
    /\ pc = "idle"
    /\ ncalls < MaxCalls
    /\ ncalls' = ncalls + 1
    /\ LET r == prepare(disk, path, tx_name, fields)
           c == [path |-> path, tx_name |-> tx_name, fields |-> fields,
                 tx_read |-> disk["cwd"].tx, state_read |-> disk["cwd"].state,
                 tx_content |-> NoContent, state_content |-> NoContent]
       IN  IF r.tag = "Ok"
           THEN /\ call' = [c EXCEPT !.tx_content = r.val.tx_content,
                                     !.state_content = r.val.state_content]
                /\ pc' = "write_tx"
                /\ UNCHANGED result
           ELSE /\ call' = c
                /\ pc' = "idle"
                /\ result' = Outcome(r)
    /\ UNCHANGED disk
    /\ UNCHANGED <<pvars, gvars>>

\* create_tx.rs 43: fs::write(tx_path, tx_content)?
WriteTx ==
    /\ pc = "write_tx"
    /\ disk' = [disk EXCEPT ![DirOf(call.path)].tx = call.tx_content]
    /\ pc' = "write_state"
    /\ UNCHANGED <<call, result, ncalls>>
    /\ UNCHANGED <<pvars, gvars>>

\* create_tx.rs 44-47: fs::write(state_path, state_content)?, then Ok(())
WriteState ==
    /\ pc = "write_state"
    /\ disk' = [disk EXCEPT ![DirOf(call.path)].state = call.state_content]
    /\ pc' = "idle"
    /\ result' = [tag |-> "Ok", msg |-> ""]
    /\ UNCHANGED <<call, ncalls>>
    /\ UNCHANGED <<pvars, gvars>>

\* the ? of create_tx.rs 43 or 44 when storage refuses the write
WriteFails ==
    /\ pc \in {"write_tx", "write_state"}
    /\ pc' = "idle"
    /\ result' = [tag |-> "Err", msg |-> "write failed"]
    /\ UNCHANGED <<disk, call, ncalls>>
    /\ UNCHANGED <<pvars, gvars>>

Call == \E path \in Paths, tx_name \in TxNames, fields \in FieldLists :
            Invoke(path, tx_name, fields)

Next == Call \/ WriteTx \/ WriteState

\* the create-tx command on the initializer's files
InitProject == Init /\ ParserIdle /\ ChainIdle

Spec ==
    /\ InitProject
    /\ [][Next]_allvars

(***************************************************************************)
(* Projects whose files are not what the initializer promises              *)
(***************************************************************************)
VerifyImpl(stmts) == ImplItem("Transaction", <<Method("verify", stmts)>>)
NoopUnion == EnumItem(UNION_NAME, <<Variant(PLACEHOLDER, <<>>)>>)

\* the union is declared under another name (TX_RS of main.rs: enum Transaction)
TxNoUnion ==
    RustFile("raw", <<EnumItem("Transaction", <<Variant(PLACEHOLDER, <<>>)>>),
                      VerifyImpl(<<OtherStmt>>)>>)
\* no impl block at all
TxNoImpl == RustFile("raw", <<NoopUnion>>)
\* the first impl block of the file is not the one that holds verify
TxNoVerify ==
    RustFile("raw", <<NoopUnion,
                      ImplItem("Batch", <<Method("new", <<OtherStmt>>)>>),
                      VerifyImpl(<<MatchStmt(FieldExpr("self", "tx_type"), <<NoopArm>>)>>)>>)
\* verify's body is Ok(()) (TX_RS of main.rs)
TxVerifyNoMatch == RustFile("raw", <<NoopUnion, VerifyImpl(<<OtherStmt>>)>>)
\* verify matches on self, not on a field
TxVerifyOtherScrut ==
    RustFile("raw", <<NoopUnion, VerifyImpl(<<MatchStmt(PathExpr("self"), <<NoopArm>>)>>)>>)

TxShapes ==
    { ContractTx, MissingFile, GarbageFile, TxNoUnion, TxNoImpl, TxNoVerify,
      TxVerifyNoMatch, TxVerifyOtherScrut }

TxMatch == MatchStmt(FieldExpr("tx", "tx_type"), <<NoopArm>>)
StateImpl(methods) == RustFile("raw", <<OtherItem("State"), ImplItem("State", methods)>>)

StateNoImpl == RustFile("raw", <<OtherItem("State")>>)
\* validate_tx is not there
StateNoValidate == StateImpl(<<Method("process_tx", <<OtherStmt, TxMatch>>)>>)
\* validate_tx's body is the match alone
StateShortBody ==
    StateImpl(<<Method("validate_tx", <<TxMatch>>),
                Method("process_tx", <<OtherStmt, TxMatch>>)>>)
\* the bodies end in Ok(()) (STATE_RS of main.rs)
StateNoMatch ==
    StateImpl(<<Method("validate_tx", <<OtherStmt, OtherStmt>>),
                Method("process_tx", <<OtherStmt, OtherStmt>>)>>)
\* process_tx matches on something that is not the union
StateOtherScrut ==
    StateImpl(<<Method("validate_tx", <<OtherStmt, TxMatch>>),
                Method("process_tx",
                    <<OtherStmt, MatchStmt(PathExpr("mode"), <<NoopArm>>)>>)>>)

StateShapes ==
    { ContractState, MissingFile, GarbageFile, StateNoImpl, StateNoValidate,
      StateShortBody, StateNoMatch, StateOtherScrut }

InitAnyFiles ==
    /\ \E p \in { Project(t, ContractState) : t \in TxShapes }
               \cup { Project(ContractTx, st) : st \in StateShapes } :
           disk = [d \in Dirs |-> IF d = "cwd" THEN p ELSE ContractProject]
    /\ pc = "idle"
    /\ call = NoCall
    /\ result = NoResult
    /\ ncalls = 0

\* any initial files, storage that takes every write
InitAnyProject == InitAnyFiles /\ ParserIdle /\ ChainIdle

SpecAnyFiles ==
    /\ InitAnyProject
    /\ [][Next]_allvars

NextFaulty == Call \/ WriteTx \/ WriteState \/ WriteFails

\* the initializer's files, storage that may refuse a write
SpecFaulty ==
    /\ InitProject
    /\ [][NextFaulty]_allvars

\* the command is not running and the directories hold no project
CommandIdle ==
    /\ disk = [d \in Dirs |-> Project(MissingFile, MissingFile)]
    /\ pc = "idle"
    /\ call = NoCall
    /\ result = NoResult
    /\ ncalls = 0

(***************************************************************************)
(* parse_fields on its own                                                 *)
(***************************************************************************)
\* the longest argument list tried
MaxArgs == 4

\* the words an argument list is made of; parse_fields does not look inside
\* a word, so a name, a type and a word that is neither are all one kind
Words == {"to", "u64", "Vec<"}

ArgLists == UNION { [1..n -> Words] : n \in 0..MaxArgs }

InitParse ==
    /\ args \in ArgLists
    /\ parsed = NotParsed

\* create_tx.rs 14-25: one call of parse_fields(args)
ParseFields ==
    /\ ~parsed.done
    /\ parsed' = Parsed(parse_fields(args))
    /\ UNCHANGED <<args, vars, gvars>>

InitParser == InitParse /\ CommandIdle /\ ChainIdle

SpecParse ==
    /\ InitParser
    /\ [][ParseFields]_allvars

(***************************************************************************)
(* examples/tictactoe/src/state.rs                                         *)
(***************************************************************************)
\* the most transactions a chain is given
MaxTx == 8

\* Board.state: [u8; 9], indexed from 0
CELLS == 0..8

\* Option<VerifyingKey>::None
NoKey == ""

Board(creator, player, state, turn) ==
    [creator |-> creator, player |-> player, state |-> state, turn |-> turn]

WINNING_COMBINATIONS ==
    << <<0, 1, 2>>, <<3, 4, 5>>, <<6, 7, 8>>,
       <<0, 3, 6>>, <<1, 4, 7>>, <<2, 5, 8>>,
       <<0, 4, 8>>, <<2, 4, 6>> >>

\* whether the cells of a combination hold one and the same mark
IsWon(board, combination) ==
    LET a == board.state[combination[1]]
        b == board.state[combination[2]]
        c == board.state[combination[3]]
    IN  a # 0 /\ a = b /\ b = c

\* Board::winner: the key of the first winning combination's mark
winner(board) ==
    LET k == FirstIdx([i \in DOMAIN WINNING_COMBINATIONS |->
                          IsWon(board, WINNING_COMBINATIONS[i])])
    IN  IF k = 0 THEN NoKey
        ELSE IF board.state[WINNING_COMBINATIONS[k][1]] = 1 THEN board.creator
        ELSE board.player

is_joined(board) == board.player # NoKey

next_player(board) ==
    IF board.turn % 2 = 0 THEN board.creator ELSE board.player

\* a Transaction: who signed it, its TransactionType with the type's fields
\* (position is 0 where the type has none), and what tx.verify() will say
Tx(vk, kind, game_id, position, verifies) ==
    [vk |-> vk, kind |-> kind, game_id |-> game_id, position |-> position,
     verifies |-> verifies]

\* state.rs 105-155: Ok, the error returned, or the panic of indexing
\* board.state past its end
validate_tx(gs, tx) ==
    IF ~tx.verifies THEN Err("verify failed")
    ELSE IF tx.kind = "Move" THEN
        IF tx.game_id \notin DOMAIN gs THEN Err("game does not exist")
        ELSE LET board == gs[tx.game_id]
             IN  IF ~is_joined(board) THEN Err("this game has not been joined yet!")
                 ELSE IF tx.vk # next_player(board) THEN Err("it is not your turn!")
                 ELSE IF tx.position \notin CELLS THEN Panic("index out of bounds")
                 ELSE IF board.state[tx.position] # 0 THEN Err("position already taken")
                 ELSE IF winner(board) # NoKey THEN Err("game has already been won")
                 ELSE Ok(<<>>)
    ELSE IF tx.kind = "JoinGame" THEN
        IF tx.game_id \notin DOMAIN gs THEN Err("game does not exist")
        ELSE LET board == gs[tx.game_id]
             IN  IF is_joined(board)
                 THEN Err("game has already been joined by another player")
                 ELSE IF board.creator = tx.vk THEN Err("you cannot join your own game")
                 ELSE Ok(<<>>)
    ELSE
        IF tx.game_id \in DOMAIN gs THEN Err("game already exists")
        ELSE Ok(<<>>)

mark_always_one(board) == 1

\* state.rs 162: the mark a move puts down
mark(board) == IF board.turn % 2 = 0 THEN 1 ELSE 2

\* state.rs 161-169: the board after a move to position
moved(board, position) ==
    [board EXCEPT !.state[position] = mark(board), !.turn = @ + 1]

\* state.rs 159-188: the games map after a transaction that validate_tx let
\* through
applied(gs, tx) ==
    IF tx.kind = "Move"
    THEN [gs EXCEPT ![tx.game_id] = moved(@, tx.position)]
    ELSE IF tx.kind = "JoinGame"
    THEN [gs EXCEPT ![tx.game_id].player = tx.vk]
    ELSE [g \in DOMAIN gs \cup {tx.game_id} |->
             IF g = tx.game_id THEN Board(tx.vk, NoKey, [c \in CELLS |-> 0], 0)
             ELSE gs[g]]

Keys == {"alice", "bob"}
GameIds == {"g1", "g2"}
\* the positions moves are made to: the cells of the top row and of the
\* middle row's start, and one position past the board
Positions == {0, 1, 2, 3, 4, 9}
Kinds == {"CreateGame", "JoinGame", "Move"}

Txs ==
    { Tx(vk, "Move", g, position, v) :
          vk \in Keys, g \in GameIds, position \in Positions, v \in BOOLEAN }
    \cup { Tx(vk, kind, g, 0, v) :
          vk \in Keys, kind \in Kinds \ {"Move"}, g \in GameIds, v \in BOOLEAN }

InitGame ==
    /\ games = NoGames
    /\ last = NoTx
    /\ ntx = 0

\* state.rs 157-189: one call of process_tx(tx)
process_tx(tx) ==
    /\ ntx < MaxTx
    /\ ntx' = ntx + 1
    /\ LET r == validate_tx(games, tx)
       IN  /\ last' = [vk |-> tx.vk, kind |-> tx.kind, game_id |-> tx.game_id,
                       outcome |-> r.tag]
           /\ games' = IF r.tag = "Ok" THEN applied(games, tx) ELSE games
    /\ UNCHANGED <<vars, pvars>>

ProcessTx == \E tx \in Txs : process_tx(tx)

InitChain == InitGame /\ CommandIdle /\ ParserIdle

SpecGame ==
    /\ InitChain
    /\ [][ProcessTx]_allvars

(***************************************************************************)
(* Reading a file's tree                                                   *)
(***************************************************************************)
\* the variants of the union a file declares, <<>> when it declares none
UnionVariants(f) ==
    LET e == FirstIdx([i \in DOMAIN f.items |-> IsUnion(f.items[i])])
    IN  IF e = 0 THEN <<>> ELSE f.items[e].variants

UnionNames(f) == { v.name : v \in Range(UnionVariants(f)) }

\* the methods named fn_name, over all impl blocks of a file
MethodsNamed(f, fn_name) ==
    { m \in UNION { Range(it.methods) : it \in Range(f.items) } : m.name = fn_name }

\* the match statements of the functions named fn_name
MatchesOf(f, fn_name) ==
    { st \in UNION { Range(m.stmts) : m \in MethodsNamed(f, fn_name) } : st.t = "match" }

\* the variant names the arms of a match cover
Covered(st) == { a.variant : a \in Range(st.arms) }

\* the invocation got as far as producing both texts
Extended == Produced(call.tx_content) /\ Produced(call.state_content)

\* the invocation ran to its end and returned Ok(())
Succeeded == Extended /\ pc = "idle" /\ result.tag = "Ok"

\* every dispatch function of a project, with the file that holds it
DispatchSites(tx, state) ==
    { <<tx, "verify">>, <<state, "validate_tx">>, <<state, "process_tx">> }

(***************************************************************************)
(* C1                                                                      *)
(***************************************************************************)
\* a project is exhaustive: each dispatch function holds a match, and the
\* arms of every match in it cover exactly the union's variant names
Exhaustive(tx, state) ==
    \A site \in DispatchSites(tx, state) :
        /\ MatchesOf(site[1], site[2]) # {}
        /\ \A st \in MatchesOf(site[1], site[2]) : Covered(st) = UnionNames(tx)

\* C1: from the initializer's files, whenever no invocation is in the middle
\* of its writes, every project on disk is exhaustive, and so is every pair
\* of texts an invocation produces: in verify, validate_tx and process_tx the
\* arms cover exactly the variant names of the union.
C1_ExhaustivenessPreserved ==
    /\ pc = "idle" => \A d \in Dirs : Exhaustive(disk[d].tx, disk[d].state)
    /\ Extended => Exhaustive(call.tx_content, call.state_content)

\* two extensions have succeeded and the working directory's union holds
\* two real variants
C1_Witness ==
    /\ Succeeded
    /\ ncalls >= 2
    /\ Len(UnionVariants(disk["cwd"].tx)) = 2
    /\ PLACEHOLDER \notin UnionNames(disk["cwd"].tx)

(***************************************************************************)
(* C2                                                                      *)
(***************************************************************************)
\* the invocation names a variant the union it read already holds
DuplicateCall ==
    /\ PathExists(call.path)
    /\ call.tx_name \in UnionNames(call.tx_read)

\* C2: an invocation whose name is already a variant of the union fails (it
\* is idle again with a failure as its result, no text produced) and both
\* files of the project are as they were read.
C2_DuplicateRejected ==
    DuplicateCall =>
        /\ pc = "idle"
        /\ result.tag # "Ok"
        /\ ~Produced(call.tx_content)
        /\ disk["cwd"] = Project(call.tx_read, call.state_read)

(***************************************************************************)
(* C3                                                                      *)
(***************************************************************************)
OnlyPlaceholder(f) == UnionNames(f) = {PLACEHOLDER}

\* C3: when the union read holds only Noop, the texts the extension produces
\* hold the new variant, no Noop variant, and no arm for Noop in verify,
\* validate_tx or process_tx; after the writes the project holds those texts.
C3_PlaceholderEliminated ==
    (Extended /\ OnlyPlaceholder(call.tx_read)) =>
        /\ call.tx_name \in UnionNames(call.tx_content)
        /\ PLACEHOLDER \notin UnionNames(call.tx_content)
        /\ \A site \in DispatchSites(call.tx_content, call.state_content) :
               \A st \in MatchesOf(site[1], site[2]) : PLACEHOLDER \notin Covered(st)
        /\ Succeeded =>
               disk[DirOf(call.path)] = Project(call.tx_content, call.state_content)

\* a first extension of the initializer's files has been written
C3_Witness ==
    /\ Succeeded
    /\ OnlyPlaceholder(call.tx_read)
    /\ PLACEHOLDER \notin UnionNames(disk[DirOf(call.path)].tx)

(***************************************************************************)
(* C4                                                                      *)
(***************************************************************************)
\* C4: in the texts an extension produces, the first arm of the match in
\* verify, validate_tx and process_tx is the arm of the new variant.
C4_NewArmFirst ==
    Extended =>
        \A site \in DispatchSites(call.tx_content, call.state_content) :
            \A st \in MatchesOf(site[1], site[2]) :
                st.arms # <<>> /\ st.arms[1].variant = call.tx_name

(***************************************************************************)
(* C5                                                                      *)
(***************************************************************************)
\* C5: a file of a project changes only in a write step of an invocation
\* that holds both produced texts; an invocation that fails before its
\* write step (it is idle before and after) leaves every file as it was.
C5_NoWriteBeforeBothTexts ==
    [][ /\ (disk' # disk) => (pc \in {"write_tx", "write_state"} /\ Extended)
        /\ (pc = "idle" /\ pc' = "idle") => disk' = disk ]_vars

\* an invocation has failed on a tx.rs holding no verify in its first impl
\* block, and the files are the ones it read
C5_Witness ==
    /\ pc = "idle"
    /\ result = [tag |-> "Err", msg |-> "Could not find verify method"]
    /\ ~Extended
    /\ disk["cwd"] = Project(call.tx_read, call.state_read)

(***************************************************************************)
(* C6                                                                      *)
(***************************************************************************)
\* the match a dispatch function must hold at its expected statement
\* position (any statement of verify, the second of validate_tx/process_tx)
HasDispatchMatch(f, fn_name) ==
    \E m \in MethodsNamed(f, fn_name) :
        IF fn_name = "verify"
        THEN \E i \in DOMAIN m.stmts : m.stmts[i].t = "match"
        ELSE Len(m.stmts) >= 2 /\ m.stmts[2].t = "match"

\* the union or one of the three dispatch functions is absent or malformed
SchemaMalformed(tx, state) ==
    \/ ~Produced(tx) \/ ~Produced(state)
    \/ FirstIdx([i \in DOMAIN tx.items |-> IsUnion(tx.items[i])]) = 0
    \/ ~HasDispatchMatch(tx, "verify")
    \/ ~HasDispatchMatch(state, "validate_tx")
    \/ ~HasDispatchMatch(state, "process_tx")

\* C6: an invocation that read a malformed schema fails (whatever the
\* failure is called) and produces no text: it never goes on to its writes.
C6_SchemaNotFound ==
    (ncalls > 0 /\ SchemaMalformed(call.tx_read, call.state_read)) =>
        /\ ~Extended
        /\ pc = "idle"
        /\ result.tag \in {"Err", "Panic"}

(***************************************************************************)
(* C7                                                                      *)
(***************************************************************************)
\* C7: an invocation with an empty field list on an existing project of the
\* initializer's shape produces its texts: the union gains the unit variant
\* and every dispatch function an arm naming it with no bindings; once the
\* invocation is over its result is Ok.
C7_UnitVariant ==
    (ncalls > 0 /\ call.fields = <<>> /\ PathExists(call.path)) =>
        /\ Extended
        /\ Variant(call.tx_name, <<>>) \in Range(UnionVariants(call.tx_content))
        /\ \A site \in DispatchSites(call.tx_content, call.state_content) :
               \A st \in MatchesOf(site[1], site[2]) :
                   \E a \in Range(st.arms) : a.variant = call.tx_name /\ a.binds = <<>>
        /\ pc = "idle" => result.tag = "Ok"

(***************************************************************************)
(* C8                                                                      *)
(***************************************************************************)
\* the variant the extension added: the last one of the produced union
AddedVariant == UnionVariants(call.tx_content)[Len(UnionVariants(call.tx_content))]

\* every dispatch function of the produced texts holds an arm for the new
\* variant, and each such arm binds exactly the caller's field names
ArmsBindCallerNames ==
    \A site \in DispatchSites(call.tx_content, call.state_content) :
        \A st \in MatchesOf(site[1], site[2]) :
            /\ \E a \in Range(st.arms) : a.variant = call.tx_name
            /\ \A a \in Range(st.arms) :
                   (a.variant = call.tx_name /\ Len(a.binds) = Len(call.fields))
                       => Range(a.binds) = { f.name : f \in Range(call.fields) }

\* C8 as stated: the added variant's fields are the caller's names and type
\* texts, in the caller's order, and the new arms bind those names.
C8_FieldsAsGiven ==
    (Extended /\ call.fields # <<>>) =>
        /\ AddedVariant.name = call.tx_name
        /\ Len(AddedVariant.fields) = Len(call.fields)
        /\ \A i \in DOMAIN call.fields :
               /\ AddedVariant.fields[i].name = call.fields[i].name
               /\ AddedVariant.fields[i].ty = call.fields[i].field_type
        /\ ArmsBindCallerNames

\* the type text is a type reference: one identifier, or an identifier
\* applied to a type reference in angle brackets
RECURSIVE IsTypeRef(_)
IsTypeRef(toks) ==
    /\ toks # <<>>
    /\ IsIdentTok(toks[1])
    /\ \/ Len(toks) = 1
       \/ /\ Len(toks) >= 4
          /\ toks[2] = "<"
          /\ toks[Len(toks)] = ">"
          /\ IsTypeRef(SubSeq(toks, 3, Len(toks) - 1))

\* C8 amended: the added variant's fields are the caller's names in the
\* caller's order, each with the caller's type when its text is a type
\* reference and with String otherwise, and the new arms bind those names.
C8_FieldOrderPreserved ==
    (Extended /\ call.fields # <<>>) =>
        /\ AddedVariant.name = call.tx_name
        /\ Len(AddedVariant.fields) = Len(call.fields)
        /\ \A i \in DOMAIN call.fields :
               /\ AddedVariant.fields[i].name = call.fields[i].name
               /\ AddedVariant.fields[i].ty =
                      IF IsTypeRef(call.fields[i].field_type)
                      THEN call.fields[i].field_type ELSE DEFAULT_TYPE
        /\ ArmsBindCallerNames

\* a two-field extension whose names are not in alphabetical order is written
C8_Witness ==
    /\ Succeeded
    /\ Len(call.fields) = 2
    /\ call.fields[1].name = "recipient"
    /\ AddedVariant.fields[2].name = "amount"

(***************************************************************************)
(* C9                                                                      *)
(***************************************************************************)
\* C9: the produced union is the union read without its placeholder, in the
\* same order, followed by the new variant.
C9_VariantAppended ==
    Extended =>
        LET before == UnionVariants(call.tx_read)
            kept == SelectSeqBy(before,
                        [i \in 1..Len(before) |-> before[i].name # PLACEHOLDER])
            after == UnionVariants(call.tx_content)
        IN  /\ Len(after) = Len(kept) + 1
            /\ SubSeq(after, 1, Len(kept)) = kept
            /\ after[Len(after)].name = call.tx_name

\* an extension of a union that already held two different real variants
C9_Witness ==
    /\ Succeeded
    /\ Len(UnionVariants(call.tx_read)) = 2
    /\ UnionVariants(call.tx_read)[1].name # UnionVariants(call.tx_read)[2].name
    /\ Len(UnionVariants(call.tx_content)) = 3

(***************************************************************************)
(* C10                                                                     *)
(***************************************************************************)
\* the positions of the caller's fields whose type text is no type reference
BadTypePositions == { i \in DOMAIN call.fields : ~IsTypeRef(call.fields[i].field_type) }

\* C10: an invocation on an existing project with a field whose type text is
\* no type reference produces its texts, the field is in the added variant
\* with type String, and the invocation ends with Ok.
C10_DefaultTypeSubstituted ==
    (ncalls > 0 /\ PathExists(call.path) /\ BadTypePositions # {}) =>
        /\ Extended
        /\ \A i \in BadTypePositions :
               AddedVariant.fields[i] = SynField(call.fields[i].name, DEFAULT_TYPE)
        /\ pc = "idle" => result.tag = "Ok"

\* an extension with three unparsable type texts has been written
C10_Witness ==
    /\ Succeeded
    /\ Cardinality(BadTypePositions) = 3
    /\ \E v \in Range(UnionVariants(disk[DirOf(call.path)].tx)) :
           \A i \in BadTypePositions : v.fields[i].ty = DEFAULT_TYPE

(***************************************************************************)
(* C11                                                                     *)
(***************************************************************************)
\* C11: the texts an invocation writes to a project are the extension of
\* what that project's own two files held: the invocation reads the files of
\* the project it was given, and a write keeps every real variant the
\* project's tx.rs held before it.
C11_ProjectFilesInAndOut ==
    [][ /\ (pc = "idle" /\ pc' = "write_tx") =>
               Project(call'.tx_read, call'.state_read) = disk[DirOf(call'.path)]
        /\ \A d \in Dirs :
               (UnionNames(disk[d].tx) \ {PLACEHOLDER}) \subseteq UnionNames(disk'[d].tx)
      ]_vars

\* C12: parse_fields pairs the argument words in order: for n words it
\* returns ceil(n/2) fields, field i named by word 2i-1 and typed by word 2i,
\* and when n is odd the last word names a field of the default type String.
C12_FieldsPairedInOrder ==
    parsed.done =>
        LET n == Len(args)
            fs == parsed.fields
        IN  /\ Len(fs) = (n + 1) \div 2
            /\ \A i \in DOMAIN fs :
                   /\ fs[i].name = args[2 * i - 1]
                   /\ fs[i].field_type = IF 2 * i <= n THEN args[2 * i] ELSE "String"

\* an odd number of words, three or more, has been parsed
C12_Witness ==
    /\ parsed.done
    /\ Len(args) >= 3
    /\ Len(args) % 2 = 1
    /\ parsed.fields[Len(parsed.fields)].field_type = "String"

\* C14: whatever invocations have run, with repeated names or not, the
\* variants of the union in every tx.rs on disk have pairwise distinct names.
C14_VariantNamesDistinct ==
    \A d \in Dirs :
        LET vs == UnionVariants(disk[d].tx)
        IN  \A i, j \in DOMAIN vs : i # j => vs[i].name # vs[j].name

\* the arms of a match that are not placeholder arms, in order
RealArms(arms) == SelectSeq(arms, LAMBDA a : a.variant # PLACEHOLDER)

\* the dispatch functions with the text read and the text produced for each
DispatchRewrites ==
    { <<call.tx_read, call.tx_content, "verify">>,
      <<call.state_read, call.state_content, "validate_tx">>,
      <<call.state_read, call.state_content, "process_tx">> }

\* C15: in the texts an extension produces, the match of every dispatch
\* function is the new arm followed directly by the non-placeholder arms the
\* function had when read, unchanged and in their order.
C15_OldArmsFollowNewArm ==
    Extended =>
        \A rw \in DispatchRewrites :
            \A new \in MatchesOf(rw[2], rw[3]) :
                /\ new.arms # <<>>
                /\ \E old \in MatchesOf(rw[1], rw[3]) :
                       Tail(new.arms) = RealArms(old.arms)

\* a match statement on <expr>.tx_type, the field that holds the union
ScrutinizesUnion(st) == IsFieldExpr(st.scrut) /\ st.scrut.member = "tx_type"

\* the matches on something else that the dispatch-named functions held
\* when the invocation read them, each with the text produced for its file
\* and its function's name
ForeignMatches ==
    UNION { { <<st, rw[2], rw[3]>> :
                  st \in { m \in MatchesOf(rw[1], rw[3]) : ~ScrutinizesUnion(m) } } :
            rw \in DispatchRewrites }

\* C16: when verify, validate_tx or process_tx as read holds a match whose
\* scrutinee is not the union's field, the invocation fails without
\* producing the texts, and a text it does produce still holds that match
\* with its scrutinee and arms as read.
C16_ForeignMatchRejected ==
    \A fm \in ForeignMatches :
        /\ pc = "idle" /\ result.tag \in {"Err", "Panic"} /\ ~Extended
        /\ Produced(fm[2]) => fm[1] \in MatchesOf(fm[2], fm[3])

\* how many arms of a match are for the variant called name
ArmsFor(st, name) == Len(SelectSeq(st.arms, LAMBDA a : a.variant = name))

\* C17: between the two writes, where a stop or a failure of the second
\* write leaves the project, tx.rs is the produced text with the new variant
\* in its union, and validate_tx and process_tx in state.rs have fewer arms
\* for the new variant than the text that was to be written: the new arm is
\* not there.
C17_TxWrittenStateLacksArm ==
    pc = "write_state" =>
        LET p == disk[DirOf(call.path)]
        IN  /\ p.tx = call.tx_content
            /\ call.tx_name \in UnionNames(p.tx)
            /\ \A fn \in {"validate_tx", "process_tx"} :
                   \A old \in MatchesOf(p.state, fn) :
                       \A new \in MatchesOf(call.state_content, fn) :
                           ArmsFor(old, call.tx_name) < ArmsFor(new, call.tx_name)

\* C18: a Move that validate_tx accepts comes from the joining player when
\* the board's turn counter is even and from the creator when it is odd.
C18_EvenTurnJoinerMoves ==
    [][ (last'.kind = "Move" /\ last'.outcome = "Ok") =>
            LET board == games[last'.game_id]
            IN  last'.vk = IF board.turn % 2 = 0 THEN board.player ELSE board.creator
      ]_gvars

\* the cells of a board that hold the mark m
Marked(board, m) == { c \in CELLS : board.state[c] = m }

\* C19: after every call of process_tx each board's turn counter is the
\* number of its non-zero cells and it has as many cells marked 1 as marked
\* 2, or one more; and a call that did not return Ok left the games map as
\* it was.
C19_BoardsConsistent ==
    [][ /\ \A g \in DOMAIN games' :
               LET board == games'[g]
                   ones == Cardinality(Marked(board, 1))
                   twos == Cardinality(Marked(board, 2))
               IN  /\ board.turn = Cardinality({ c \in CELLS : board.state[c] # 0 })
                   /\ ones - twos \in {0, 1}
        /\ last'.outcome # "Ok" => games' = games
      ]_gvars

\* a move onto a board with three marks has just been rejected
C19_Witness ==
    /\ last.kind = "Move"
    /\ last.outcome = "Err"
    /\ last.game_id \in DOMAIN games
    /\ games[last.game_id].turn >= 3

====
